---- MODULE Spec2Model ----
(***************************************************************************)
(* A model of the 2048 board engine (twenty_48/src/lib.rs), its autoplay   *)
(* strategies (twenty_48/src/solvers.rs) and the driver loops that call    *)
(* them.                                                                   *)
(*                                                                         *)
(* A cell of GameState.nums is Option<Tile>, and a Tile is the exponent of *)
(* a power of two (NonZeroU32).  A cell is modelled by a natural number:   *)
(* 0 is None, e >= 1 is Some(Tile(e)).  The board is a function on the     *)
(* flat, row-major indices 0..15 the code uses.                            *)
(***************************************************************************)
EXTENDS Integers, Sequences, FiniteSets, TLC

VARIABLES
    nums,       \* GameState.nums of the game under play
    rng,        \* GameState.rng of that game: the samples it has been asked for
    pc,         \* what the caller did last / where the driver loop stands
    mode,       \* which loop runs: "api" (none), "interactive", "urld", "snake"
    prev_state, \* the interactive driver's undo snapshot (a clone of the
                \* GameState): <<>> is None, <<g>> is Some(g)
    moves,      \* the moves the driver loop has played
    before,     \* nums as it was when the last operation on it was called
    dir,        \* the direction of the last do_move ("none" before any)
    merges,     \* how often the last do_move ran its merge branch
    src,        \* per cell: how many tiles of its input the last do_move put into it
    arg,        \* the array handed to from_list (<<>> when none is)
    ret,        \* what the last query returned: <<>> is nothing, <<v>> is v
    key,        \* the last input an interactive driver handled ("none" before any)
    pre_move,   \* <<b>>: b was the grid before the last move played since the
                \* game started or was last undone; <<>>: no such move
    storage,    \* the local storage of the browser: the items "game" and "history"
    stats,      \* Model.stats of the web driver
    seed,       \* the seed handed to new_from_seed (<<>>: the generator is
                \* seeded from entropy)
    log,        \* the constructions of a GameState from the seed: the grid
                \* and generator it started from, the call, the grid it made
    undone      \* <<e>>: e is the call the last undo reverted; <<>>: none

vars ==
    <<nums, rng, pc, mode, prev_state, moves, before, dir, merges, src, arg, ret,
      key, pre_move, storage, stats, seed, log, undone>>

(***************************************************************************)
(* Bounds of the model.                                                    *)
(***************************************************************************)
\* the largest exponent a cell of an input board holds (2^3 = 8)
MaxExp == 3

\* the largest exponent of the line that varies in a board handed to a loop
DriverMaxExp == 2

\* the moves a driver loop plays before the model stops following it
MaxMoves == 1

\* the largest exponent of the row that varies in a board handed to a driver
\* that reads the player's input
KeyMaxExp == 1

\* the most past games the persisted history holds
MaxHistory == 2

\* the largest seed handed to new_from_seed
MaxSeed == 7

\* the games finished on the statistics of one page
MaxGames == 6

\* the scores of finished games are 12 and the multiples of 500 up to
\* 500 * ScoreSteps
ScoreSteps == 2

\* the largest value of an array handed to from_list
MaxListValue == 8

Cells == 0..15
None == 0

\* enum Direction
Directions == {"Up", "Down", "Left", "Right"}

\* a Direction::ALL that names Left twice and Right never
Direction_ALL_noRight == <<"Up", "Down", "Left", "Left">>

Direction_ALL == <<"Up", "Down", "Left", "Right">>

(***************************************************************************)
(* Tile                                                                    *)
(***************************************************************************)
TWO == 1

\* Tile::double: the exponent plus one
double_skip(e) == e + 2

double(e) == e + 1

FOUR == double(TWO)

RECURSIVE pow2(_)
pow2(e) == IF e = 0 THEN 1 ELSE 2 * pow2(e - 1)

\* Tile::as_u32: 2_u32.pow(exponent)
as_u32(e) == pow2(e)

(***************************************************************************)
(* The (dperp, dpar, start) table of can_move_colrow and do_move.          *)
(***************************************************************************)
DirParams(direction) ==
    CASE direction = "Up"    -> [dperp |-> 4,  dpar |-> 1, start |-> 0]
      [] direction = "Down"  -> [dperp |-> -4, dpar |-> 1, start |-> 12]
      [] direction = "Left"  -> [dperp |-> 1,  dpar |-> 4, start |-> 0]
      [] direction = "Right" -> [dperp |-> -1, dpar |-> 4, start |-> 3]

(***************************************************************************)
(* can_move_colrow: the seek loop `for seekidx in 1..4 - perp_idx` at one  *)
(* idx.  TRUE is `return true`; FALSE is the break or the end of the loop, *)
(* after either of which the perp_idx loop goes on.                        *)
(***************************************************************************)
\* a seek loop that reports merges only, without the is_none branch
RECURSIVE CanSeek_mergeonly(_, _, _, _, _)
CanSeek_mergeonly(b, idx, dperp, seekidx, last) ==
    IF seekidx > last THEN FALSE
    ELSE LET n == idx + seekidx * dperp IN
         IF b[n] # None
         THEN b[idx] = b[n]
         ELSE CanSeek_mergeonly(b, idx, dperp, seekidx + 1, last)

\* a seek loop whose comparison is inverted (`!=` for `==`)
RECURSIVE CanSeek_unequal(_, _, _, _, _)
CanSeek_unequal(b, idx, dperp, seekidx, last) ==
    IF seekidx > last THEN FALSE
    ELSE LET n == idx + seekidx * dperp IN
         IF b[n] # None
         THEN IF b[idx] # b[n] THEN TRUE
              ELSE IF b[idx] = None THEN TRUE
              ELSE FALSE
         ELSE CanSeek_unequal(b, idx, dperp, seekidx + 1, last)

RECURSIVE CanSeek(_, _, _, _, _)
CanSeek(b, idx, dperp, seekidx, last) ==
    IF seekidx > last THEN FALSE
    ELSE LET n == idx + seekidx * dperp IN
         IF b[n] # None
         THEN IF b[idx] = b[n] THEN TRUE
              ELSE IF b[idx] = None THEN TRUE
              ELSE FALSE
         ELSE CanSeek(b, idx, dperp, seekidx + 1, last)

\* a can_move_colrow whose perp_idx loop stops one short (`0..2` for `0..3`):
\* the two cells farthest from the edge are never compared
can_move_colrow_short(b, colrow, direction) ==
    LET p == DirParams(direction)
        s == p.start + colrow * p.dpar
    IN  \E perp_idx \in 0..1 :
            CanSeek(b, s + perp_idx * p.dperp, p.dperp, 1, 3 - perp_idx)

can_move_colrow(b, colrow, direction) ==
    LET p == DirParams(direction)
        s == p.start + colrow * p.dpar
    IN  \E perp_idx \in 0..2 :
            CanSeek(b, s + perp_idx * p.dperp, p.dperp, 1, 3 - perp_idx)

\* a can_move that answers for the axis of the direction, either way along it
can_move_axis(b, direction) ==
    \E colrow \in 0..3 :
        \/ can_move_colrow(b, colrow, direction)
        \/ can_move_colrow(b, colrow,
                           CASE direction = "Up" -> "Down"
                             [] direction = "Down" -> "Up"
                             [] direction = "Left" -> "Right"
                             [] direction = "Right" -> "Left")

can_move(b, direction) ==
    \E colrow \in 0..3 : can_move_colrow(b, colrow, direction)

can_move_row(b, row) ==
    can_move_colrow(b, row, "Left") \/ can_move_colrow(b, row, "Right")

can_move_col(b, column) ==
    can_move_colrow(b, column, "Up") \/ can_move_colrow(b, column, "Down")

\* a lost() with `any` in the place of `all`
lost_any(b) == \E i \in 1..4 : ~can_move(b, Direction_ALL[i])

lost(b) == \A i \in 1..4 : ~can_move(b, Direction_ALL[i])

(***************************************************************************)
(* do_move.  The running state st is the board under mutation (st.nums)    *)
(* with two observations of the run: st.merges counts the executions of    *)
(* the merge branch, st.src[c] the tiles of the input that make up the     *)
(* tile now in cell c.                                                     *)
(***************************************************************************)
\* a merge that forgets `self.nums[n] = None`
MergeInto_keep(st, idx, n) ==
    [nums   |-> [st.nums EXCEPT ![idx] = double(st.nums[idx])],
     merges |-> st.merges + 1,
     src    |-> [st.src EXCEPT ![idx] = st.src[idx] + st.src[n]]]

MergeInto(st, idx, n) ==
    [nums   |-> [st.nums EXCEPT ![idx] = double(st.nums[idx]), ![n] = None],
     merges |-> st.merges + 1,
     src    |-> [st.src EXCEPT ![idx] = st.src[idx] + st.src[n], ![n] = 0]]

\* a slide that forgets `self.nums[n] = None`
SlideInto_copy(st, idx, n) ==
    [nums   |-> [st.nums EXCEPT ![idx] = st.nums[n]],
     merges |-> st.merges,
     src    |-> [st.src EXCEPT ![idx] = st.src[n]]]

SlideInto(st, idx, n) ==
    [nums   |-> [st.nums EXCEPT ![idx] = st.nums[n], ![n] = None],
     merges |-> st.merges,
     src    |-> [st.src EXCEPT ![idx] = st.src[n], ![n] = 0]]

\* a seek loop without the `break` after a merge
RECURSIVE Seek_nobreak(_, _, _, _, _)
Seek_nobreak(st, idx, dperp, seekidx, last) ==
    IF seekidx > last THEN st
    ELSE LET n == idx + seekidx * dperp IN
         IF st.nums[n] # None
         THEN IF st.nums[idx] = st.nums[n]
              THEN Seek_nobreak(MergeInto(st, idx, n), idx, dperp, seekidx + 1, last)
              ELSE IF st.nums[idx] = None
              THEN Seek_nobreak(SlideInto(st, idx, n), idx, dperp, seekidx + 1, last)
              ELSE st
         ELSE Seek_nobreak(st, idx, dperp, seekidx + 1, last)

\* a seek loop that stops after a slide instead of scanning on
RECURSIVE Seek_slidebreak(_, _, _, _, _)
Seek_slidebreak(st, idx, dperp, seekidx, last) ==
    IF seekidx > last THEN st
    ELSE LET n == idx + seekidx * dperp IN
         IF st.nums[n] # None
         THEN IF st.nums[idx] = st.nums[n]
              THEN MergeInto(st, idx, n)
              ELSE IF st.nums[idx] = None
              THEN SlideInto(st, idx, n)
              ELSE st
         ELSE Seek_slidebreak(st, idx, dperp, seekidx + 1, last)

RECURSIVE Seek(_, _, _, _, _)
Seek(st, idx, dperp, seekidx, last) ==
    IF seekidx > last THEN st
    ELSE LET n == idx + seekidx * dperp IN
         IF st.nums[n] # None
         THEN IF st.nums[idx] = st.nums[n]
              THEN MergeInto(st, idx, n)                                \* break
              ELSE IF st.nums[idx] = None
              THEN Seek(SlideInto(st, idx, n), idx, dperp, seekidx + 1, last)
              ELSE st                                                   \* break
         ELSE Seek(st, idx, dperp, seekidx + 1, last)

\* a perp_idx loop whose seek range is `1..3 - perp_idx`, one cell short
RECURSIVE PerpLoop_short(_, _, _, _)
PerpLoop_short(st, s, dperp, perp_idx) ==
    IF perp_idx > 2 THEN st
    ELSE PerpLoop_short(Seek(st, s + perp_idx * dperp, dperp, 1, 2 - perp_idx),
                        s, dperp, perp_idx + 1)

RECURSIVE PerpLoop(_, _, _, _)
PerpLoop(st, s, dperp, perp_idx) ==
    IF perp_idx > 2 THEN st
    ELSE PerpLoop(Seek(st, s + perp_idx * dperp, dperp, 1, 3 - perp_idx),
                  s, dperp, perp_idx + 1)

\* a par_idx loop over `0..3`, which leaves the last line as it is
RECURSIVE ParLoop_three(_, _, _)
ParLoop_three(st, p, par_idx) ==
    IF par_idx > 2 THEN st
    ELSE ParLoop_three(PerpLoop(st, p.start + par_idx * p.dpar, p.dperp, 0),
                       p, par_idx + 1)

RECURSIVE ParLoop(_, _, _)
ParLoop(st, p, par_idx) ==
    IF par_idx > 3 THEN st
    ELSE ParLoop(PerpLoop(st, p.start + par_idx * p.dpar, p.dperp, 0),
                 p, par_idx + 1)

do_move(b, direction) ==
    ParLoop([nums |-> b, merges |-> 0,
             src |-> [c \in Cells |-> IF b[c] = None THEN 0 ELSE 1]],
            DirParams(direction), 0)

(***************************************************************************)
(* Spawning                                                                *)
(***************************************************************************)
OpenCells(b) == {c \in Cells : b[c] = None}

open_tiles(b) == Cardinality(OpenCells(b))

\* an nth(k) taken over all the cells, without the is_none filter
NthOpen_unfiltered(b, k) == k

\* .enumerate().filter(is_none).nth(k): the open cell with k open cells before it
NthOpen(b, k) ==
    CHOOSE c \in OpenCells(b) : Cardinality({x \in OpenCells(b) : x < c}) = k

\* Distribution<Tile> for Standard: Tile::TWO or Tile::FOUR
SampleTiles == {TWO, FOUR}

(***************************************************************************)
(* Input boards: every line over 0..MaxExp, put in every row and every     *)
(* column of an empty board and of a full board on which nothing moves.    *)
(***************************************************************************)
Lines == [0..3 -> 0..MaxExp]

EmptyBoard == [c \in Cells |-> None]

Checker == [c \in Cells |-> IF ((c \div 4) + (c % 4)) % 2 = 0 THEN 1 ELSE 2]

Backgrounds == {EmptyBoard, Checker}

PutRow(b, r, l) == [c \in Cells |-> IF c \div 4 = r THEN l[c % 4] ELSE b[c]]

PutCol(b, k, l) == [c \in Cells |-> IF c % 4 = k THEN l[c \div 4] ELSE b[c]]

Boards ==
    {PutRow(b, r, l) : b \in Backgrounds, r \in 0..3, l \in Lines}
        \cup {PutCol(b, k, l) : b \in Backgrounds, k \in 0..3, l \in Lines}

NoSrc == [c \in Cells |-> 0]

(***************************************************************************)
(* from_list, and the board of the repository's test (test::testcase1).    *)
(* i32::checked_log2 is None for n <= 0 and the floor of log2(n)           *)
(* otherwise; NonZeroU32::new is None for 0; each unwrap of None panics.   *)
(***************************************************************************)
RECURSIVE ilog2(_)
ilog2(n) == IF n < 2 THEN 0 ELSE 1 + ilog2(n \div 2)

\* one of the two unwraps of `NonZeroU32::new(n.checked_log2().unwrap()).unwrap()`
\* panics: checked_log2 is None (n <= 0), or the logarithm is 0 (n = 1)
EntryPanics(n) == n <= 0 \/ ilog2(n) = 0

from_list_panics(a) == \E i \in 1..16 : a[i] # -1 /\ EntryPanics(a[i])

from_list(a) ==
    IF from_list_panics(a)
    THEN "panic"
    ELSE [c \in Cells |-> IF a[c + 1] = -1 THEN None ELSE ilog2(a[c + 1])]

\* a rows() that reads the array column by column
rows_transposed(b) == [r \in 0..3 |-> [c \in 0..3 |-> b[c * 4 + r]]]

\* rows: nums[0..4], nums[4..8], nums[8..12], nums[12..16]
rows(b) == [r \in 0..3 |-> [c \in 0..3 |-> b[r * 4 + c]]]

TestCase1 == <<128, 64, 32, 8, 8, 4, 8, 4, -1, -1, -1, -1, -1, -1, -1, -1>>

Fixture == from_list(TestCase1)

(***************************************************************************)
(* spawn_tile: random_open_tile().unwrap() panics on a full board, before  *)
(* any cell is written; otherwise the k-th open cell (k uniform in         *)
(* 0..open_tiles) is set to a sampled tile.  The generator's draws are the *)
(* choices of k and of the tile.                                           *)
(***************************************************************************)
\* a random_open_tile that answers Some(0) for a board without open cell
random_open_tile_first(b) ==
    IF open_tiles(b) = 0 THEN {0}
    ELSE {NthOpen(b, k) : k \in 0..(open_tiles(b) - 1)}

random_open_tile(b) ==
    IF open_tiles(b) = 0 THEN {}
    ELSE {NthOpen(b, k) : k \in 0..(open_tiles(b) - 1)}

SpawnAt(b, ts) ==
    IF ts = {}
    THEN {[nums |-> b, panicked |-> TRUE]}
    ELSE {[nums |-> [b EXCEPT ![t] = tile], panicked |-> FALSE] :
            t \in ts, tile \in SampleTiles}

spawn_tile(b) == SpawnAt(b, random_open_tile(b))

\* the samples a spawn_tile that returns has taken: `self.rng.sample(Uniform..)`
\* of random_open_tile and `self.rng.gen()`; a spawn_tile that panics took none
SpawnSamples == 2

Sampled(sp) == IF sp.panicked THEN 0 ELSE SpawnSamples

\* a new that calls spawn_tile once
new_once == spawn_tile(EmptyBoard)

\* GameState::new (new_from_seed, new_from_entropy): `nums: [None; 16]` and
\* two calls of spawn_tile; a panic of the first ends the construction
new ==
    UNION {IF s1.panicked THEN {s1} ELSE spawn_tile(s1.nums) :
            s1 \in spawn_tile(EmptyBoard)}

\* the values of `.filter_map(|t| t.map(|t| t.as_u32()))`
TileValues(b) == {as_u32(b[c]) : c \in {x \in Cells : b[x] # None}}

\* a max that takes the value of the last tile of the array
max_last(b) ==
    IF TileValues(b) = {} THEN <<>>
    ELSE <<as_u32(b[CHOOSE c \in Cells : b[c] # None /\ \A x \in Cells : b[x] # None => x <= c])>>

\* max: Iterator::max is None for no tile, and the unwrap of None panics
\* (<<>>); otherwise <<the largest value>>
max(b) ==
    IF TileValues(b) = {} THEN <<>>
    ELSE <<CHOOSE m \in TileValues(b) : \A v \in TileValues(b) : v <= m>>

(***************************************************************************)
(* The data of the web driver (yew/src/main.rs).  An item of the local     *)
(* storage is what get_item answers: Err(_), Ok(None) or Ok(Some(text)).   *)
(* A text is held as the sequence of the JSON values it spells; a text     *)
(* that spells none is one of the malformed ones.                          *)
(***************************************************************************)
Failed == [kind |-> "err", text |-> <<>>]

Absent == [kind |-> "none", text |-> <<>>]

Stored(t) == [kind |-> "some", text |-> t]

NoStorage == [game |-> Absent, history |-> Absent]

\* struct Scoreboard([Option<(u64, String)>; 5]), Default
EmptyScoreboard == [k \in 1..5 |-> <<>>]

\* Stats::default()
NoStats ==
    [history |-> <<>>, lifetime_points |-> 0, scoreboard |-> EmptyScoreboard]

\* A score is counted in units of 2^62 points: a u64 holds 0, 1, 2 or 3 of
\* them, and a sum of 4 units or more (2^64) does not fit.
U64Units == 4

\* the JSON null of an empty cell
JsonNull == -1

\* serde_json::to_string(&self.gs): the 16 cells in order, each the exponent
\* of its tile or null
to_string(b) == [i \in 1..16 |-> IF b[i - 1] = None THEN JsonNull ELSE b[i - 1]]

\* serde_json::from_str::<GameState>: 16 values, each null or an exponent >= 1
from_str_game(t) ==
    IF Len(t) = 16 /\ \A i \in 1..16 : t[i] = JsonNull \/ t[i] >= 1
    THEN [ok |-> TRUE,
          val |-> [c \in Cells |-> IF t[c + 1] = JsonNull THEN None ELSE t[c + 1]]]
    ELSE [ok |-> FALSE, val |-> EmptyBoard]

\* serde_json::to_string(&self.stats.history)
history_to_string(h) ==
    [i \in 1..Len(h) |-> [date |-> h[i].date, score |-> h[i].score]]

\* serde_json::from_str::<StatsHistory>: every score is a u64
from_str_history(t) ==
    IF \A i \in 1..Len(t) : t[i].score >= 0 /\ t[i].score < U64Units
    THEN [ok |-> TRUE,
          val |-> [i \in 1..Len(t) |-> [date |-> t[i].date, score |-> t[i].score]]]
    ELSE [ok |-> FALSE, val |-> <<>>]

\* serde_json::from_str::<T> for the two types Model::create loads
from_str(T, t) == IF T = "GameState" THEN from_str_game(t) ELSE from_str_history(t)

\* load_from_storage::<T>: <<>> is None, <<v>> is Some(v)
load_from_storage(item, T) ==
    IF item.kind = "some"
    THEN IF from_str(T, item.text).ok THEN <<from_str(T, item.text).val>> ELSE <<>>
    ELSE <<>>

\* Model::save
save(b, st) ==
    [game |-> Stored(to_string(b)), history |-> Stored(history_to_string(st.history))]

\* Scoreboard::add without `self.0[i..].rotate_right(1)`: the new score
\* replaces the one it beats
Scoreboard_add_replace(sb, new_score, date) ==
    LET stops == {i \in 1..5 : sb[i] = <<>> \/ new_score > sb[i][1].score}
    IN  IF stops = {} THEN sb
        ELSE LET i == CHOOSE k \in stops : \A j \in stops : k <= j
             IN  [k \in 1..5 |->
                    IF k = i THEN <<[score |-> new_score, date |-> date]>>
                    ELSE sb[k]]

\* Scoreboard::add
Scoreboard_add(sb, new_score, date) ==
    LET stops == {i \in 1..5 : sb[i] = <<>> \/ new_score > sb[i][1].score}
    IN  IF stops = {} THEN sb
        ELSE LET i == CHOOSE k \in stops : \A j \in stops : k <= j
             IN  [k \in 1..5 |->
                    IF k < i THEN sb[k]
                    ELSE IF k = i THEN <<[score |-> new_score, date |-> date]>>
                    ELSE sb[k - 1]]

\* `for g in &history.0 { scoreboard.add(g.score, g.date.clone()); }`
RECURSIVE ReplayHistory(_, _, _)
ReplayHistory(sb, h, i) ==
    IF i > Len(h) THEN sb
    ELSE ReplayHistory(Scoreboard_add(sb, h[i].score, h[i].date), h, i + 1)

\* history.0.iter().map(|h| h.score).sum()
RECURSIVE SumScores(_, _)
SumScores(h, i) == IF i > Len(h) THEN 0 ELSE h[i].score + SumScores(h, i + 1)

\* Stats::new.  A sum that does not fit the u64 panics in a build that
\* checks overflow and wraps in one that does not.
Stats_new(history) ==
    LET returned ==
            [panicked |-> FALSE,
             stats |-> [history |-> history,
                        lifetime_points |-> SumScores(history, 1) % U64Units,
                        scoreboard |-> ReplayHistory(EmptyScoreboard, history, 1)]]
    IN  IF SumScores(history, 1) >= U64Units
        THEN {returned, [panicked |-> TRUE, stats |-> NoStats]}
        ELSE {returned}

\* the game of Model::create:
\* load_from_storage(LS_KEY_GAME).unwrap_or_else(GameState::new_from_entropy)
LoadedGames(st) ==
    IF load_from_storage(st.game, "GameState") = <<>>
    THEN {[nums |-> r.nums, panicked |-> r.panicked,
           rng |-> IF r.panicked THEN 0 ELSE 2 * SpawnSamples] : r \in new}
    ELSE {[nums |-> load_from_storage(st.game, "GameState")[1],
           panicked |-> FALSE, rng |-> 0]}

\* the history of Model::create:
\* load_from_storage(LS_KEY_HISTORY).unwrap_or_default()
LoadedHistory(st) ==
    IF load_from_storage(st.history, "StatsHistory") = <<>>
    THEN <<>>
    ELSE load_from_storage(st.history, "StatsHistory")[1]

(***************************************************************************)
(* Spec: a caller applies one operation of the board engine to a board.    *)
(***************************************************************************)
Init ==
    /\ nums \in Boards \cup {Fixture}
    /\ pc = "ready"
    /\ mode = "api"
    /\ prev_state = <<>>
    /\ moves = 0
    /\ before = nums
    /\ dir = "none"
    /\ merges = 0
    /\ src = NoSrc
    /\ arg = <<>>
    /\ ret = <<>>
    /\ rng = 0
    /\ key = "none"
    /\ pre_move = <<>>
    /\ storage = NoStorage
    /\ stats = NoStats
    /\ seed = <<>>
    /\ log = {}
    /\ undone = <<>>

\* nums becomes the board of r, a result of do_move(nums, d)
Moved(r, d) ==
    /\ nums' = r.nums
    /\ merges' = r.merges
    /\ src' = r.src
    /\ dir' = d

CallDoMove(d) ==
    /\ pc = "ready"
    /\ Moved(do_move(nums, d), d)
    /\ before' = nums
    /\ pc' = "moved"
    /\ UNCHANGED <<rng, mode, prev_state, moves, arg, ret, key, pre_move,
                   storage, stats, seed, log, undone>>

CallSpawnTile ==
    /\ pc = "ready"
    /\ \E r \in spawn_tile(nums) :
        /\ nums' = r.nums
        /\ rng' = rng + Sampled(r)
        /\ pc' = IF r.panicked THEN "panicked" ELSE "spawned"
    /\ before' = nums
    /\ UNCHANGED <<mode, prev_state, moves, dir, merges, src, arg, ret, key,
                   pre_move, storage, stats, seed, log, undone>>

\* GameState::new_from_seed / new_from_entropy.  The state that has not
\* called anything yet on the all-None array is the one before `new`.
CallNew ==
    /\ pc = "ready"
    /\ nums = EmptyBoard
    /\ \E r \in new :
        /\ nums' = r.nums
        /\ rng' = IF r.panicked THEN 0 ELSE 2 * SpawnSamples
        /\ pc' = IF r.panicked THEN "panicked" ELSE "new"
    /\ before' = nums
    /\ UNCHANGED <<mode, prev_state, moves, dir, merges, src, arg, ret, key,
                   pre_move, storage, stats, seed, log, undone>>

\* gs.max()
CallMax ==
    /\ pc = "ready"
    /\ IF max(nums) = <<>>
       THEN pc' = "max_panicked" /\ ret' = ret
       ELSE pc' = "max" /\ ret' = max(nums)
    /\ before' = nums
    /\ UNCHANGED <<nums, rng, mode, prev_state, moves, dir, merges, src, arg,
                   key, pre_move, storage, stats, seed, log, undone>>

Next ==
    \/ \E d \in Directions : CallDoMove(d)
    \/ CallSpawnTile
    \/ CallNew
    \/ CallMax

Spec == Init /\ [][Next]_vars

(***************************************************************************)
(* SpecList: a caller builds a board with from_list and reads its rows.    *)
(* The arrays are the array of 16 sentinels and the array of               *)
(* test::testcase1, with any two entries replaced by any values of         *)
(* -2..MaxListValue.                                                       *)
(***************************************************************************)
ListValues == (0 - 2)..MaxListValue

AllSentinel == [i \in 1..16 |-> -1]

ListInputs ==
    {[a EXCEPT ![i] = v, ![j] = w] :
        a \in {AllSentinel, TestCase1}, i \in 1..16, j \in 1..16,
        v \in ListValues, w \in ListValues}

ListInit ==
    /\ arg \in ListInputs
    /\ nums = EmptyBoard
    /\ pc = "ready"
    /\ mode = "api"
    /\ prev_state = <<>>
    /\ moves = 0
    /\ before = nums
    /\ dir = "none"
    /\ merges = 0
    /\ src = NoSrc
    /\ ret = <<>>
    /\ rng = 0
    /\ key = "none"
    /\ pre_move = <<>>
    /\ storage = NoStorage
    /\ stats = NoStats
    /\ seed = <<>>
    /\ log = {}
    /\ undone = <<>>

\* GameState::from_list(arg): a panic constructs no GameState
CallFromList ==
    /\ pc = "ready"
    /\ IF from_list_panics(arg)
       THEN pc' = "panicked" /\ nums' = nums
       ELSE pc' = "built" /\ nums' = from_list(arg)
    /\ UNCHANGED <<rng, mode, prev_state, moves, before, dir, merges, src,
                   arg, ret, key, pre_move, storage, stats, seed, log, undone>>

\* gs.rows() on the board from_list built
CallRows ==
    /\ pc = "built"
    /\ ret' = <<rows(nums)>>
    /\ pc' = "rows"
    /\ UNCHANGED <<nums, rng, mode, prev_state, moves, before, dir, merges,
                   src, arg, key, pre_move, storage, stats, seed, log, undone>>

ListNext ==
    \/ CallFromList
    \/ CallRows

SpecList == ListInit /\ [][ListNext]_vars

(***************************************************************************)
(* SpecDriver: the loops that play a game.  solver_up_right_left_down and  *)
(* solver_snake take the GameState of any caller; the interactive loop     *)
(* (main of src/main.rs, play_interactive of the cli) reads keys.  A board *)
(* at the head of a loop is one of DriverBoards: the full board on which   *)
(* nothing moves, with one row or column replaced by any line.             *)
(***************************************************************************)
DriverLines == [0..3 -> 0..DriverMaxExp]

DriverBoards ==
    {PutRow(Checker, r, l) : r \in 0..3, l \in DriverLines}
        \cup {PutCol(Checker, k, l) : k \in 0..3, l \in DriverLines}

\* a priority array that names Left twice and Down never
URLD_noDown == <<"Up", "Right", "Left", "Left">>

URLD == <<"Up", "Right", "Left", "Down">>

ULRD == <<"Up", "Left", "Right", "Down">>

\* some `if gs.can_move(d)` of `for d in priority` is taken
HasLegal(b, priority) == \E i \in 1..4 : can_move(b, priority[i])

\* a for loop that goes on after a move: the last direction that can move
\* is the one the board is left with
FirstLegal_last(b, priority) ==
    priority[CHOOSE i \in 1..4 :
                /\ can_move(b, priority[i])
                /\ \A j \in (i + 1)..4 : ~can_move(b, priority[j])]

\* the d of the `if gs.can_move(d)` that `for d in priority` takes first
FirstLegal(b, priority) ==
    priority[CHOOSE i \in 1..4 :
                /\ can_move(b, priority[i])
                /\ \A j \in 1..(i - 1) : ~can_move(b, priority[j])]

\* a solver_snake that never looks at row 1
SnakePriority_row0(b) == ULRD

\* the priority solver_snake picks before a move
SnakePriority(b) ==
    IF can_move_row(b, 0) THEN ULRD
    ELSE IF can_move_row(b, 1) THEN URLD
    ELSE ULRD

\* gs.do_move(d); gs.spawn_tile(): a panic of spawn_tile ends the program
Spawned(r, d) ==
    /\ \E sp \in spawn_tile(r.nums) :
        /\ nums' = sp.nums
        /\ rng' = rng + Sampled(sp)
        /\ pc' = IF sp.panicked THEN "panicked" ELSE "loop"
    /\ before' = r.nums
    /\ dir' = d
    /\ merges' = r.merges
    /\ src' = r.src
    /\ moves' = moves + 1

PlayMove(d) == Spawned(do_move(nums, d), d)

DriverInit ==
    /\ nums \in DriverBoards
    /\ pc = "loop"
    /\ mode \in {"interactive", "urld", "snake"}
    /\ rng = 0
    /\ prev_state = <<>>
    /\ storage = NoStorage
    /\ stats = NoStats
    /\ seed = <<>>
    /\ log = {}
    /\ undone = <<>>
    /\ moves = 0
    /\ before = nums
    /\ dir = "none"
    /\ merges = 0
    /\ src = NoSrc
    /\ arg = <<>>
    /\ ret = <<>>
    /\ key = "none"
    /\ pre_move = <<>>

\* the body of `while !gs.lost()`: the for loop plays the first direction
\* that can move; when none can, it ends and the body has changed nothing
SolverBody(priority) ==
    IF HasLegal(nums, priority)
    THEN /\ PlayMove(FirstLegal(nums, priority))
         /\ UNCHANGED <<mode, prev_state, arg, ret, key, pre_move, storage,
                        stats, seed, log, undone>>
    ELSE UNCHANGED vars

\* one iteration of solver_up_right_left_down
UrldStep ==
    /\ pc = "loop" /\ mode = "urld" /\ moves < MaxMoves
    /\ ~lost(nums)
    /\ SolverBody(URLD)

\* one iteration of solver_snake
SnakeStep ==
    /\ pc = "loop" /\ mode = "snake" /\ moves < MaxMoves
    /\ ~lost(nums)
    /\ SolverBody(SnakePriority(nums))

\* `while !gs.lost()` ends: the solver returns
SolverReturn ==
    /\ pc = "loop" /\ mode \in {"urld", "snake"}
    /\ lost(nums)
    /\ pc' = "returned"
    /\ UNCHANGED <<nums, rng, mode, prev_state, moves, before, dir, merges,
                   src, arg, ret, key, pre_move, storage, stats,
                   seed, log, undone>>

\* the two loops that read the keys of a terminal: main of src/main.rs and
\* play_interactive of the cli
TerminalDriver == mode \in {"interactive", "cli"}

\* GameState::spawn_tile_with_dir(dir) of the cli and of the web driver: one
\* sample over the empty cells for each direction, the one of the direction
\* played is kept, and a tile of value 2 or 4 is placed there
spawn_tile_with_dir(b, d) == spawn_tile(b)

\* the draws of spawn_tile_with_dir: a cell for each direction, and the tile
SampledWithDir(sp) ==
    IF sp.panicked THEN 0 ELSE Cardinality(Directions) + SpawnSamples - 1

\* game.do_move(dir); game.spawn_tile_with_dir(dir) of the cli
DirSpawned(r, d) ==
    /\ \E sp \in spawn_tile_with_dir(r.nums, d) :
        /\ nums' = sp.nums
        /\ rng' = rng + SampledWithDir(sp)
        /\ pc' = IF sp.panicked THEN "panicked" ELSE "loop"
    /\ before' = r.nums
    /\ dir' = d
    /\ merges' = r.merges
    /\ src' = r.src
    /\ moves' = moves + 1

\* an arrow key: snapshot, move and spawn when the direction can move
KeyDirection(d) ==
    /\ pc = "loop" /\ TerminalDriver /\ moves < MaxMoves
    /\ ~lost(nums)
    /\ key' = d
    /\ IF can_move(nums, d)
       THEN /\ prev_state' = <<[nums |-> nums, rng |-> rng]>>
            /\ pre_move' = <<nums>>
            /\ IF mode = "cli"
               THEN DirSpawned(do_move(nums, d), d)
               ELSE PlayMove(d)
            /\ UNCHANGED <<mode, arg, ret, storage, stats, seed, log, undone>>
       ELSE UNCHANGED <<nums, rng, pc, mode, prev_state, moves, before, dir,
                        merges, src, arg, ret, pre_move, storage, stats,
                        seed, log, undone>>

\* a key u that takes the snapshot and leaves the game as it is
KeyUndo_forget ==
    /\ pc = "loop" /\ TerminalDriver
    /\ ~lost(nums)
    /\ key' = "u"
    /\ pre_move' = <<>>
    /\ prev_state' = <<>>
    /\ UNCHANGED <<nums, rng, pc, mode, moves, before, dir, merges, src, arg,
                   ret, storage, stats, seed, log, undone>>

\* the key u: `if let Some(prev) = prev_state.take() { game = prev; }`.
\* The observations of the last do_move and spawn_tile are of the game that
\* is replaced: they are reset with it.
KeyUndo ==
    /\ pc = "loop" /\ TerminalDriver
    /\ ~lost(nums)
    /\ key' = "u"
    /\ pre_move' = <<>>
    /\ IF prev_state # <<>>
       THEN /\ nums' = prev_state[1].nums
            /\ rng' = prev_state[1].rng
            /\ prev_state' = <<>>
            /\ before' = prev_state[1].nums
            /\ dir' = "none"
            /\ merges' = 0
            /\ src' = NoSrc
            /\ UNCHANGED <<pc, mode, moves, arg, ret, storage, stats, seed, log, undone>>
       ELSE UNCHANGED <<nums, rng, pc, mode, prev_state, moves, before, dir,
                        merges, src, arg, ret, storage, stats,
                        seed, log, undone>>

\* `if game.lost() { break 'gameloop; }`
InteractiveBreak ==
    /\ pc = "loop" /\ TerminalDriver
    /\ lost(nums)
    /\ pc' = "returned"
    /\ UNCHANGED <<nums, rng, mode, prev_state, moves, before, dir, merges,
                   src, arg, ret, key, pre_move, storage, stats,
                   seed, log, undone>>

\* self.gs.do_move(dir); self.gs.spawn_tile_with_dir(dir); self.save()
WebSpawned(r, d) ==
    /\ \E sp \in spawn_tile_with_dir(r.nums, d) :
        /\ nums' = sp.nums
        /\ rng' = rng + SampledWithDir(sp)
        /\ pc' = IF sp.panicked THEN "panicked" ELSE "loop"
        /\ storage' = IF sp.panicked THEN storage ELSE save(sp.nums, stats)
    /\ before' = r.nums
    /\ dir' = d
    /\ merges' = r.merges
    /\ src' = r.src
    /\ moves' = moves + 1

\* a Move(dir) that plays without asking can_move
WebMove_unguarded(d) ==
    /\ pc = "loop" /\ mode = "web" /\ moves < MaxMoves
    /\ key' = d
    /\ prev_state' = <<[nums |-> nums, rng |-> rng]>>
    /\ pre_move' = <<nums>>
    /\ WebSpawned(do_move(nums, d), d)
    /\ UNCHANGED <<mode, arg, ret, stats, seed, log, undone>>

\* Model::update, Action::Move(dir)
WebMove(d) ==
    /\ pc = "loop" /\ mode = "web" /\ moves < MaxMoves
    /\ key' = d
    /\ IF can_move(nums, d)
       THEN /\ prev_state' = <<[nums |-> nums, rng |-> rng]>>
            /\ pre_move' = <<nums>>
            /\ WebSpawned(do_move(nums, d), d)
            /\ UNCHANGED <<mode, arg, ret, stats, seed, log, undone>>
       ELSE UNCHANGED <<nums, rng, pc, mode, prev_state, moves, before, dir,
                        merges, src, arg, ret, pre_move, storage, stats,
                        seed, log, undone>>

\* Model::update, Action::Undo: `self.gs = self.prev.clone(); self.save()`
WebUndo ==
    /\ pc = "loop" /\ mode = "web"
    /\ key' = "u"
    /\ pre_move' = <<>>
    /\ nums' = prev_state[1].nums
    /\ rng' = prev_state[1].rng
    /\ storage' = save(prev_state[1].nums, stats)
    /\ before' = prev_state[1].nums
    /\ dir' = "none"
    /\ merges' = 0
    /\ src' = NoSrc
    /\ UNCHANGED <<pc, mode, prev_state, moves, arg, ret, stats, seed, log, undone>>

DriverNext ==
    \/ UrldStep
    \/ SnakeStep
    \/ SolverReturn
    \/ \E d \in Directions : KeyDirection(d)
    \/ KeyUndo
    \/ InteractiveBreak

SpecDriver == DriverInit /\ [][DriverNext]_vars

(***************************************************************************)
(* SpecReplay: GameStates built from one seed and driven by the loop of    *)
(* main.  A StdRng is a function of its seed and of the number of samples  *)
(* it has returned, rng, which a clone copies; it is modelled by a small   *)
(* generator of that shape, whose words run through 0..15.  Each           *)
(* construction from the seed is entered in log.  Here moves counts the    *)
(* moves that made the grid the game holds: an undo takes one back, so     *)
(* that the move that was undone can be played again.                      *)
(***************************************************************************)
\* the word a generator seeded with sd returns as its g-th sample
RECURSIVE StdRng(_, _)
StdRng(sd, g) == IF g = 0 THEN sd % 16 ELSE (5 * StdRng(sd, g - 1) + 3) % 16

\* self.rng.sample(Uniform::new(0, open_tiles)) when the generator yields w
UniformSample(w, open) == w % open

\* self.rng.gen(): Standard samples a Bernoulli, Tile::TWO when it is true
TileSample(w) == IF w < 13 THEN TWO ELSE FOUR

\* spawn_tile on the grid b, the generator of seed sd having returned g samples
seeded_spawn_tile(b, sd, g) ==
    IF open_tiles(b) = 0
    THEN [nums |-> b, rng |-> g, panicked |-> TRUE]
    ELSE [nums |-> [b EXCEPT
                      ![NthOpen(b, UniformSample(StdRng(sd, g + 1), open_tiles(b)))] =
                          TileSample(StdRng(sd, g + 2))],
          rng |-> g + SpawnSamples,
          panicked |-> FALSE]

\* GameState::new(StdRng::seed_from_u64(seed)): two spawns on the empty grid
seeded_new(sd) ==
    seeded_spawn_tile(seeded_spawn_tile(EmptyBoard, sd, 0).nums, sd, SpawnSamples)

ReplayInit ==
    /\ pc = "start"
    /\ mode = "interactive"
    /\ nums = EmptyBoard
    /\ rng = 0
    /\ prev_state = <<>>
    /\ moves = 0
    /\ before = nums
    /\ dir = "none"
    /\ merges = 0
    /\ src = NoSrc
    /\ arg = <<>>
    /\ ret = <<>>
    /\ key = "none"
    /\ pre_move = <<>>
    /\ storage = NoStorage
    /\ stats = NoStats
    /\ seed \in 0..MaxSeed
    /\ log = {}
    /\ undone = <<>>

\* `let mut game = GameState::new_from_seed(seed); let mut prev_state = None;`
\* at the start, and again with the same seed for another game
NewFromSeed ==
    /\ pc \in {"start", "loop"} /\ mode = "interactive"
    /\ nums' = seeded_new(seed).nums
    /\ rng' = seeded_new(seed).rng
    /\ log' = log \cup {[nums |-> EmptyBoard, rng |-> 0, call |-> "new",
                          out |-> seeded_new(seed).nums]}
    /\ pc' = "loop"
    /\ prev_state' = <<>>
    /\ undone' = <<>>
    /\ key' = "none"
    /\ pre_move' = <<>>
    /\ before' = EmptyBoard
    /\ dir' = "none"
    /\ merges' = 0
    /\ src' = NoSrc
    /\ moves' = 0
    /\ UNCHANGED <<mode, arg, ret, storage, stats, seed>>

\* game.do_move(dir); game.spawn_tile() on the seeded game
SeededSpawned(r, d) ==
    /\ nums' = seeded_spawn_tile(r.nums, seed, rng).nums
    /\ rng' = seeded_spawn_tile(r.nums, seed, rng).rng
    /\ pc' = IF seeded_spawn_tile(r.nums, seed, rng).panicked
             THEN "panicked" ELSE "loop"
    /\ before' = r.nums
    /\ dir' = d
    /\ merges' = r.merges
    /\ src' = r.src
    /\ moves' = moves + 1

\* an arrow key in the loop of main, on the seeded game
SeededKeyDirection(d) ==
    /\ pc = "loop" /\ mode = "interactive" /\ moves < MaxMoves
    /\ ~lost(nums)
    /\ key' = d
    /\ IF can_move(nums, d)
       THEN /\ prev_state' = <<[nums |-> nums, rng |-> rng]>>
            /\ pre_move' = <<nums>>
            /\ SeededSpawned(do_move(nums, d), d)
            /\ UNCHANGED <<mode, arg, ret, storage, stats, seed, log, undone>>
       ELSE UNCHANGED <<nums, rng, pc, mode, prev_state, moves, before, dir,
                        merges, src, arg, ret, pre_move, storage, stats,
                        seed, log, undone>>

\* a key u whose `game = prev` takes the grid of the snapshot and leaves the
\* generator of the game where it is
SeededKeyUndo_grid ==
    /\ pc = "loop" /\ mode = "interactive"
    /\ ~lost(nums)
    /\ key' = "u"
    /\ pre_move' = <<>>
    /\ IF prev_state # <<>>
       THEN /\ nums' = prev_state[1].nums
            /\ prev_state' = <<>>
            /\ undone' = <<[nums |-> prev_state[1].nums, call |-> dir,
                            out |-> nums]>>
            /\ before' = prev_state[1].nums
            /\ dir' = "none"
            /\ merges' = 0
            /\ src' = NoSrc
            /\ moves' = moves - 1
            /\ UNCHANGED <<rng, pc, mode, arg, ret, storage, stats, seed,
                           log>>
       ELSE UNCHANGED <<nums, rng, pc, mode, prev_state, moves, before, dir,
                        merges, src, arg, ret, storage, stats, seed, log,
                        undone>>

\* the key u in the loop of main, on the seeded game: `game = prev` assigns
\* the clone, its grid and its generator
SeededKeyUndo ==
    /\ pc = "loop" /\ mode = "interactive"
    /\ ~lost(nums)
    /\ key' = "u"
    /\ pre_move' = <<>>
    /\ IF prev_state # <<>>
       THEN /\ nums' = prev_state[1].nums
            /\ rng' = prev_state[1].rng
            /\ prev_state' = <<>>
            /\ undone' = <<[nums |-> prev_state[1].nums, call |-> dir,
                            out |-> nums]>>
            /\ before' = prev_state[1].nums
            /\ dir' = "none"
            /\ merges' = 0
            /\ src' = NoSrc
            /\ moves' = moves - 1
            /\ UNCHANGED <<pc, mode, arg, ret, storage, stats, seed, log>>
       ELSE UNCHANGED <<nums, rng, pc, mode, prev_state, moves, before, dir,
                        merges, src, arg, ret, storage, stats, seed, log,
                        undone>>

ReplayNext ==
    \/ NewFromSeed
    \/ \E d \in Directions : SeededKeyDirection(d)
    \/ SeededKeyUndo

SpecReplay == ReplayInit /\ [][ReplayNext]_vars

(***************************************************************************)
(* SpecStats: the statistics of the web page.  Games finish one after the  *)
(* other with a score, counted in points; the page is loaded again from    *)
(* the history it saved, and the statistics dialog draws the histogram.    *)
(***************************************************************************)
\* `const BINS: u64 = 10;`
BINS == 10

\* `const BIN_MULT: u64 = 100;`
BIN_MULT == 100

\* the scores a finished game may have
Scores == {12} \cup {500 * k : k \in 1..ScoreSteps}

\* u64::next_multiple_of
next_multiple_of(n, m) == IF n % m = 0 THEN n ELSE n + (m - (n % m))

\* u64::div_ceil
div_ceil(a, b) == (a + b - 1) \div b

\* history.0.iter().map(|t| t.score).min().unwrap_or_default()
history_min(h) ==
    IF h = <<>> THEN 0
    ELSE CHOOSE m \in {h[i].score : i \in 1..Len(h)} :
            \A i \in 1..Len(h) : m <= h[i].score

\* history.0.iter().map(|t| t.score).max().unwrap_or_default()
history_max(h) ==
    IF h = <<>> THEN 0
    ELSE CHOOSE m \in {h[i].score : i \in 1..Len(h)} :
            \A i \in 1..Len(h) : m >= h[i].score

\* `let min_round_down = min / BIN_MULT * BIN_MULT;`
min_round_down(h) == (history_min(h) \div BIN_MULT) * BIN_MULT

\* `let max_round_up = max.next_multiple_of(BIN_MULT);`
max_round_up(h) == next_multiple_of(history_max(h), BIN_MULT)

\* `let bin_width = (((max_round_up - min_round_down) / BIN_MULT)
\*      .div_ceil(BINS) * BIN_MULT).max(100);`
bin_width(h) ==
    LET width == div_ceil((max_round_up(h) - min_round_down(h)) \div BIN_MULT,
                          BINS) * BIN_MULT
    IN  IF width >= 100 THEN width ELSE 100

\* `((d.score - min_round_down) / bin_width) as usize` for the i-th game
bin_index(h, i) == (h[i].score - min_round_down(h)) \div bin_width(h)

\* Model::histogram up to the end of `for d in &self.stats.history.0`:
\* bins[index] += 1 panics when the index is not below BINS
histogram(h) ==
    IF \E i \in 1..Len(h) : bin_index(h, i) >= BINS
    THEN [panicked |-> TRUE, bins |-> <<>>]
    ELSE [panicked |-> FALSE,
          bins |-> [b \in 0..(BINS - 1) |->
                      Cardinality({i \in 1..Len(h) : bin_index(h, i) = b})]]

\* Stats::on_game_finish
on_game_finish(st, score, date) ==
    [history |-> Append(st.history, [date |-> date, score |-> score]),
     lifetime_points |-> st.lifetime_points + score,
     scoreboard |-> Scoreboard_add(st.scoreboard, score, date)]

\* the page is created and no history is stored: Stats::new(Default)
StatsInit ==
    /\ pc = "page"
    /\ mode = "web"
    /\ stats = NoStats
    /\ nums = EmptyBoard
    /\ rng = 0
    /\ prev_state = <<>>
    /\ moves = 0
    /\ before = EmptyBoard
    /\ dir = "none"
    /\ merges = 0
    /\ src = [c \in Cells |-> {}]
    /\ arg = <<>>
    /\ ret = <<>>
    /\ key = "none"
    /\ pre_move = <<>>
    /\ storage = NoStorage
    /\ seed = <<>>
    /\ log = {}
    /\ undone = <<>>

\* Action::NewGame ends a game of more than 10 points:
\* `self.stats.on_game_finish(score, date)`
GameFinished(score) ==
    /\ pc \in {"page", "drawn"} /\ mode = "web"
    /\ Len(stats.history) < MaxGames
    /\ score > 10
    /\ stats' = on_game_finish(stats, score, "d")
    /\ pc' = "page"
    /\ ret' = <<>>
    /\ key' = "n"
    /\ UNCHANGED <<nums, rng, mode, prev_state, moves, before, dir, merges, src,
                   arg, pre_move, storage, seed, log, undone>>

\* the page is loaded again: Stats::new on the history that was saved
PageReloaded ==
    /\ pc \in {"page", "drawn"} /\ mode = "web"
    /\ stats.history # <<>>
    /\ key # "load"
    /\ stats' = [history |-> stats.history,
                 lifetime_points |-> SumScores(stats.history, 1),
                 scoreboard |-> ReplayHistory(EmptyScoreboard, stats.history, 1)]
    /\ pc' = "page"
    /\ ret' = <<>>
    /\ key' = "load"
    /\ UNCHANGED <<nums, rng, mode, prev_state, moves, before, dir, merges, src,
                   arg, pre_move, storage, seed, log, undone>>

\* Model::view with the statistics dialog open: `let hist = self.histogram();`
ViewStats ==
    /\ pc = "page" /\ mode = "web"
    /\ pc' = IF histogram(stats.history).panicked THEN "panicked" ELSE "drawn"
    /\ ret' = <<histogram(stats.history).bins>>
    /\ UNCHANGED <<nums, rng, mode, prev_state, moves, before, dir, merges, src,
                   arg, key, pre_move, storage, stats, seed, log, undone>>

StatsNext ==
    \/ \E score \in Scores : GameFinished(score)
    \/ PageReloaded
    \/ ViewStats

SpecStats == StatsInit /\ [][StatsNext]_vars

(***************************************************************************)
(* SpecLoad: Model::create of the web driver, from any pair of items the   *)
(* browser's storage holds under the keys "game" and "history": no item, a *)
(* read that fails, a text that is no board (too short, too long, an       *)
(* exponent of 0), the text save() wrote for a board; a history of at most *)
(* MaxHistory games whose scores are any multiples of 2^62 below 2^64, or  *)
(* hold one entry that is no u64.                                          *)
(***************************************************************************)
MalformedGames ==
    {<<>>,
     [i \in 1..15 |-> JsonNull],
     [i \in 1..17 |-> JsonNull],
     [i \in 1..16 |-> IF i = 1 THEN 0 ELSE JsonNull]}

SavedGames == {to_string(b) : b \in {Fixture, Checker, EmptyBoard}}

GameItems == {Failed, Absent} \cup {Stored(t) : t \in MalformedGames \cup SavedGames}

HistoryEntries == [date : {"d"}, score : (0 - 1)..(U64Units - 1)]

HistoryTexts == UNION {[1..n -> HistoryEntries] : n \in 0..MaxHistory}

HistoryItems == {Failed, Absent} \cup {Stored(t) : t \in HistoryTexts}

LoadInit ==
    /\ storage \in [game : GameItems, history : HistoryItems]
    /\ pc = "start"
    /\ mode = "web"
    /\ nums = EmptyBoard
    /\ rng = 0
    /\ prev_state = <<>>
    /\ stats = NoStats
    /\ seed = <<>>
    /\ log = {}
    /\ undone = <<>>
    /\ moves = 0
    /\ before = nums
    /\ dir = "none"
    /\ merges = 0
    /\ src = NoSrc
    /\ arg = <<>>
    /\ ret = <<>>
    /\ key = "none"
    /\ pre_move = <<>>

\* Model::create: the game, then the statistics, then `prev: gs.clone()`.
\* A panic of either leaves no Model.
WebCreate ==
    /\ pc = "start" /\ mode = "web"
    /\ \E gm \in LoadedGames(storage) :
        /\ nums' = gm.nums
        /\ rng' = gm.rng
        /\ before' = gm.nums
        /\ IF gm.panicked
           THEN /\ pc' = "panicked"
                /\ UNCHANGED <<prev_state, stats, seed, log, undone>>
           ELSE \E s \in Stats_new(LoadedHistory(storage)) :
                /\ pc' = IF s.panicked THEN "panicked" ELSE "loop"
                /\ stats' = s.stats
                /\ prev_state' =
                    IF s.panicked
                    THEN prev_state
                    ELSE <<[nums |-> gm.nums, rng |-> gm.rng]>>
    /\ UNCHANGED <<mode, moves, dir, merges, src, arg, ret, key, pre_move,
                   storage, seed, log, undone>>

LoadNext == WebCreate

SpecLoad == LoadInit /\ [][LoadNext]_vars

(***************************************************************************)
(* SpecKeys: the drivers that read the player's input, the two terminal    *)
(* loops and the web page, from the boards of KeyBoards: the full board on *)
(* which nothing moves, and that board with one row replaced by any line   *)
(* of KeyLines.  The web driver                                            *)
(* stands where Model::create leaves it once it has loaded the board from  *)
(* the storage: `prev: gs.clone()`.                                        *)
(***************************************************************************)
KeyLines == [0..3 -> 0..KeyMaxExp]

KeyBoards == {Checker} \cup {PutRow(Checker, r, l) : r \in 0..3, l \in KeyLines}

KeysInit ==
    /\ nums \in KeyBoards
    /\ pc = "loop"
    /\ mode \in {"interactive", "cli", "web"}
    /\ rng = 0
    /\ prev_state = IF mode = "web" THEN <<[nums |-> nums, rng |-> rng]>> ELSE <<>>
    /\ storage =
        IF mode = "web"
        THEN [game |-> Stored(to_string(nums)), history |-> Absent]
        ELSE NoStorage
    /\ stats = NoStats
    /\ seed = <<>>
    /\ log = {}
    /\ undone = <<>>
    /\ moves = 0
    /\ before = nums
    /\ dir = "none"
    /\ merges = 0
    /\ src = NoSrc
    /\ arg = <<>>
    /\ ret = <<>>
    /\ key = "none"
    /\ pre_move = <<>>

KeysNext ==
    \/ \E d \in Directions : KeyDirection(d)
    \/ KeyUndo
    \/ InteractiveBreak
    \/ \E d \in Directions : WebMove(d)
    \/ WebUndo

SpecKeys == KeysInit /\ [][KeysNext]_vars

(***************************************************************************)
(* SpecSolve: solve() of the cli, `let mut game = new_from_entropy();       *)
(* solver(&mut game)`, and the solvers called on the boards of             *)
(* DriverBoards.  The loop is sequential code: it takes its next step      *)
(* whenever it has one.  SolveFair is WF_vars(SolveNext) with its          *)
(* ENABLED <<SolveNext>>_vars written out as the state predicate           *)
(* SolveCanStep.                                                           *)
(***************************************************************************)
SolveInit ==
    /\ \/ pc = "start" /\ nums = EmptyBoard
       \/ pc = "loop" /\ nums \in DriverBoards
    /\ mode \in {"urld", "snake"}
    /\ prev_state = <<>>
    /\ moves = 0
    /\ before = nums
    /\ dir = "none"
    /\ merges = 0
    /\ src = NoSrc
    /\ arg = <<>>
    /\ ret = <<>>
    /\ rng = 0
    /\ key = "none"
    /\ pre_move = <<>>
    /\ storage = NoStorage
    /\ stats = NoStats
    /\ seed = <<>>
    /\ log = {}
    /\ undone = <<>>

\* `let mut game = GameState::new_from_entropy();`
SolveNew ==
    /\ pc = "start"
    /\ \E r \in new :
        /\ nums' = r.nums
        /\ rng' = IF r.panicked THEN 0 ELSE 2 * SpawnSamples
        /\ pc' = IF r.panicked THEN "panicked" ELSE "loop"
    /\ before' = nums'
    /\ UNCHANGED <<mode, prev_state, moves, dir, merges, src, arg, ret, key,
                   pre_move, storage, stats, seed, log, undone>>

SolveNext ==
    \/ SolveNew
    \/ UrldStep
    \/ SnakeStep
    \/ SolverReturn

\* the priority array of the solver that runs
SolverPriority == IF mode = "urld" THEN URLD ELSE SnakePriority(nums)

\* some step of SolveNext changes the state
SolveCanStep ==
    \/ pc = "start"
    \/ pc = "loop" /\ lost(nums)
    \/ pc = "loop" /\ moves < MaxMoves /\ HasLegal(nums, SolverPriority)

SolveFair == []<>(~SolveCanStep) \/ []<><<TRUE>>_vars

SpecSolve == SolveInit /\ [][SolveNext]_vars /\ SolveFair

(***************************************************************************)
(* Vocabulary of the properties.  A line is named by the direction D of a  *)
(* move and its row (Left, Right) or column (Up, Down); its positions are  *)
(* counted from the D edge: position 1 is the cell at that edge.           *)
(***************************************************************************)
LineCell(colrow, d, k) ==
    CASE d = "Left"  -> colrow * 4 + (k - 1)
      [] d = "Right" -> colrow * 4 + (4 - k)
      [] d = "Up"    -> (k - 1) * 4 + colrow
      [] d = "Down"  -> (4 - k) * 4 + colrow

Line(b, colrow, d) ==
    <<b[LineCell(colrow, d, 1)], b[LineCell(colrow, d, 2)],
      b[LineCell(colrow, d, 3)], b[LineCell(colrow, d, 4)]>>

\* no empty cell has a tile farther from the edge
Packed(l) == \A i \in 1..3 : \A j \in (i + 1)..4 : l[i] = None => l[j] = None

\* no two neighbouring tiles are equal
NoEqualNeighbours(l) == \A i \in 1..3 : l[i] # None => l[i] # l[i + 1]

\* an empty cell with a tile farther from the edge
HasGap(l) == \E i \in 1..3 : \E j \in (i + 1)..4 : l[i] = None /\ l[j] # None

\* two equal tiles with only empty cells between them
HasPair(l) ==
    \E i \in 1..3 : \E j \in (i + 1)..4 :
        /\ l[i] # None /\ l[i] = l[j]
        /\ \A m \in (i + 1)..(j - 1) : l[m] = None

TileCount(b) == Cardinality({c \in Cells : b[c] # None})

RECURSIVE SumFrom(_, _)
SumFrom(b, c) ==
    IF c > 15 THEN 0
    ELSE (IF b[c] = None THEN 0 ELSE as_u32(b[c])) + SumFrom(b, c + 1)

\* the sum of the values of the tiles of b
TileSum(b) == SumFrom(b, 0)

\* the cells whose tile the last do_move produced by a merge
MergedCells == {c \in Cells : src[c] >= 2}

\* the sum of the values of the tiles the last do_move produced by merges
MergedSum == TileSum([c \in Cells |-> IF c \in MergedCells THEN nums[c] ELSE None])

\* the largest exponent of a board or a line (0 when it holds no tile)
MaxTile(b) == CHOOSE m \in {b[c] : c \in DOMAIN b} : \A c \in DOMAIN b : b[c] <= m

(***************************************************************************)
(* C1.  If can_move(D) is false on a board, do_move(D) leaves all 16 cells *)
(* of the board unchanged (and runs to its end: it has no failing path).   *)
(***************************************************************************)
C1_NoMoveIsIdentity ==
    (pc = "moved" /\ ~can_move(before, dir)) => (nums = before /\ merges = 0)

C1_Witness ==
    /\ pc = "moved"
    /\ ~can_move(before, dir)
    /\ TileCount(before) >= 5
    /\ open_tiles(before) >= 1
    /\ nums = before

(***************************************************************************)
(* C2.  No double merge: within one do_move no tile produced by a merge    *)
(* merges again.  Every cell of the result is made of at most two tiles of *)
(* the input, a cell made of two holds their value doubled once, and no    *)
(* tile exceeds twice the largest tile of the input.                       *)
(***************************************************************************)
C2_NoDoubleMerge ==
    pc = "moved" =>
        /\ \A c \in Cells : src[c] <= 2
        /\ \A c \in Cells : nums[c] # None => nums[c] <= MaxTile(before) + 1
        /\ Cardinality(MergedCells) = merges

\* a merged tile that ends next to a tile of its own (doubled) value
C2_Witness ==
    /\ pc = "moved"
    /\ \E colrow \in 0..3, k \in 1..3 :
        /\ src[LineCell(colrow, dir, k)] = 2
        /\ src[LineCell(colrow, dir, k + 1)] = 1
        /\ nums[LineCell(colrow, dir, k)] = nums[LineCell(colrow, dir, k + 1)]

(***************************************************************************)
(* C3, as the specification states it: the sum of the tile values after    *)
(* do_move minus the sum before equals the sum of the values of the tiles  *)
(* produced by merges (so the sum grows when a merge is performed).        *)
(***************************************************************************)
C3_SumGrowsByMerges ==
    pc = "moved" => TileSum(nums) - TileSum(before) = MergedSum

(***************************************************************************)
(* C3, amended.  do_move leaves the sum of the tile values unchanged, with *)
(* or without merges: a merge replaces two tiles of value v by one of 2v.  *)
(***************************************************************************)
C3_SumUnchanged ==
    pc = "moved" => TileSum(nums) - TileSum(before) = 0

C3_Witness ==
    /\ pc = "moved"
    /\ merges >= 1
    /\ MergedSum >= 8
    /\ TileSum(nums) = TileSum(before)

(***************************************************************************)
(* C4.  do_move never increases the number of non-empty cells: the count   *)
(* decreases by exactly the number of merges performed.                    *)
(***************************************************************************)
C4_CountDropsByMerges ==
    pc = "moved" =>
        /\ TileCount(nums) = TileCount(before) - merges
        /\ TileCount(nums) <= TileCount(before)

C4_Witness ==
    /\ pc = "moved"
    /\ merges = 4
    /\ TileCount(before) = 16
    /\ TileCount(nums) = 12

(***************************************************************************)
(* C5.  lost() is true if and only if can_move is false for each of Up,    *)
(* Down, Left and Right.                                                   *)
(***************************************************************************)
C5_LostIffNoDirection ==
    lost(nums) <=>
        (/\ ~can_move(nums, "Up")   /\ ~can_move(nums, "Down")
         /\ ~can_move(nums, "Left") /\ ~can_move(nums, "Right"))

C5_Witness ==
    /\ lost(nums)
    /\ open_tiles(nums) = 0
    /\ pc = "ready"

LineStuck(l) == Packed(l) /\ NoEqualNeighbours(l)

LineMovable(l) == HasGap(l) \/ HasPair(l)

\* the answer of can_move(b, d) is the one the lines of b along d call for
AnswerIsExact(answer, b, d) ==
    /\ ~answer <=> \A colrow \in 0..3 : LineStuck(Line(b, colrow, d))
    /\ answer <=> \E colrow \in 0..3 : LineMovable(Line(b, colrow, d))

(***************************************************************************)
(* C6.  can_move(D) is false exactly when every line along D is packed     *)
(* against the D edge (or empty) with no two neighbouring tiles equal; it  *)
(* is true iff some line has an empty cell with a tile farther from the    *)
(* edge, or two equal tiles with only empty cells between them.  The       *)
(* board of test::testcase1 cannot move Right.                             *)
(***************************************************************************)
C6_CanMoveExact ==
    /\ \A d \in Directions : AnswerIsExact(can_move(nums, d), nums, d)
    /\ nums = Fixture => ~can_move(nums, "Right")

C6_Witness ==
    /\ nums = Fixture
    /\ pc = "ready"
    /\ ~can_move(nums, "Right")
    /\ can_move(nums, "Down")

ThreeOfAKind(l) ==
    /\ Cardinality({k \in 1..4 : l[k] = None}) = 1
    /\ \A i, j \in 1..4 : (l[i] # None /\ l[j] # None) => l[i] = l[j]

\* a line l of three tiles v and an empty cell becomes the line m = 2v, v, -, -
ThreeBecomeTwo(l, m) ==
    ThreeOfAKind(l) => m = <<MaxTile(l) + 1, MaxTile(l), None, None>>

(***************************************************************************)
(* C7.  A line of three tiles of one value v and one empty cell, moved in  *)
(* either direction along it, becomes 2v at the target edge, v next to it  *)
(* and two empty cells.                                                    *)
(***************************************************************************)
C7_ThreeOfAKind ==
    pc = "moved" =>
        \A colrow \in 0..3 :
            ThreeBecomeTwo(Line(before, colrow, dir), Line(nums, colrow, dir))

\* row [2, 2, 2, -1] swiped Left
C7_Witness ==
    /\ pc = "moved"
    /\ dir = "Left"
    /\ \E row \in 0..3 :
        /\ Line(before, row, "Left") = <<1, 1, 1, None>>
        /\ Line(nums, row, "Left") = <<2, 1, None, None>>

\* a line l of one tile becomes the line m = that tile, -, -, -
LoneTileAtEdge(l, m) ==
    Cardinality({k \in 1..4 : l[k] # None}) = 1 =>
        m = <<MaxTile(l), None, None, None>>

(***************************************************************************)
(* C8.  Chained slide: the tile of a line that holds exactly one tile ends *)
(* in the cell at the D edge, its value unchanged, and the three other     *)
(* cells of the line end empty.                                            *)
(***************************************************************************)
C8_SingleTileSlides ==
    pc = "moved" =>
        \A colrow \in 0..3 :
            LoneTileAtEdge(Line(before, colrow, dir), Line(nums, colrow, dir))

\* a tile that crosses three empty cells
C8_Witness ==
    /\ pc = "moved"
    /\ dir = "Down"
    /\ \E col \in 0..3 :
        /\ Line(before, col, "Down") = <<None, None, None, 3>>
        /\ Line(nums, col, "Down") = <<3, None, None, None>>

(***************************************************************************)
(* C9.  Spawn invariant: on a board with an empty cell spawn_tile returns  *)
(* normally, and then exactly one cell that was empty holds a tile of      *)
(* value 2 or 4 while every other cell is unchanged.                       *)
(***************************************************************************)
C9_SpawnInvariant ==
    (pc \in {"spawned", "panicked"} /\ open_tiles(before) >= 1) =>
        /\ pc = "spawned"
        /\ \E c \in Cells :
            /\ before[c] = None
            /\ nums[c] # None
            /\ as_u32(nums[c]) \in {2, 4}
            /\ \A x \in Cells \ {c} : nums[x] = before[x]

\* the last open cell of a board, filled with a 4
C9_Witness ==
    /\ pc = "spawned"
    /\ open_tiles(before) = 1
    /\ TileSum(nums) = TileSum(before) + 4

(***************************************************************************)
(* C10.  In every execution of the driver and solver loops the board has   *)
(* an empty cell at the moment spawn_tile is called (right after a do_move *)
(* whose direction could move): spawn_tile never panics.                   *)
(***************************************************************************)
C10_SpawnNeverOnFullBoard ==
    /\ pc # "panicked"
    /\ dir # "none" => open_tiles(before) >= 1

\* a solver moved a full board: one merge freed the cell the spawn then filled
C10_Witness ==
    /\ mode = "urld"
    /\ pc = "loop"
    /\ moves >= 1
    /\ merges = 1
    /\ open_tiles(before) = 1
    /\ open_tiles(nums) = 0

PowersOfTwo == {pow2(e) : e \in 1..30}

\* some entry of the array a is neither the sentinel nor a power of two >= 2
HasInvalidEntry(a) == \E i \in 1..16 : a[i] # -1 /\ a[i] \notin PowersOfTwo

(***************************************************************************)
(* C12.  from_list fails fast (constructs no board) for every array that   *)
(* holds a value other than the sentinel -1 which is not an exact power of *)
(* two >= 2 (0, 1, 3, 6, a negative number other than -1).                 *)
(***************************************************************************)
C12_FromListRejectsInvalid ==
    (pc \in {"built", "rows", "panicked"} /\ HasInvalidEntry(arg)) => pc = "panicked"

(***************************************************************************)
(* C13.  Round trip: for every array whose entries are each -1 or an exact *)
(* power of two >= 2, from_list followed by rows() reproduces the grid:    *)
(* cell (r, c) of rows() is empty when entry r*4+c is -1 and otherwise     *)
(* holds a tile whose value (as_u32) equals that entry.                    *)
(***************************************************************************)
C13_FromListRowsRoundTrip ==
    (pc \in {"built", "rows", "panicked"} /\ ~HasInvalidEntry(arg)) =>
        /\ pc # "panicked"
        /\ pc = "rows" =>
            \A r \in 0..3, c \in 0..3 :
                IF arg[r * 4 + c + 1] = -1
                THEN ret[1][r][c] = None
                ELSE /\ ret[1][r][c] # None
                     /\ as_u32(ret[1][r][c]) = arg[r * 4 + c + 1]

\* the array of test::testcase1 with two entries replaced by an 8 and a sentinel
C13_Witness ==
    /\ pc = "rows"
    /\ ~HasInvalidEntry(arg)
    /\ arg # TestCase1
    /\ arg[1] = 128 /\ arg[16] = 8 /\ arg[4] = -1
    /\ as_u32(ret[1][0][0]) = 128
    /\ as_u32(ret[1][3][3]) = 8
    /\ ret[1][0][3] = None

(***************************************************************************)
(* C14.  Every board new_from_seed / new_from_entropy returns holds        *)
(* exactly two tiles, each of value 2 or 4, in two distinct cells, and is  *)
(* not lost, whatever the two spawn positions and values; the construction *)
(* never panics.                                                           *)
(***************************************************************************)
C14_NewBoardTwoTilesNotLost ==
    /\ (pc = "panicked" /\ before = EmptyBoard) => FALSE
    /\ pc = "new" =>
        /\ TileCount(nums) = 2
        /\ \A c \in Cells : nums[c] # None => as_u32(nums[c]) \in {2, 4}
        /\ ~lost(nums)

\* a 2 in the corner and a 4 next to it: neither Up nor Left can move
C14_Witness ==
    /\ pc = "new"
    /\ nums[0] = TWO /\ nums[1] = FOUR
    /\ ~can_move(nums, "Up") /\ ~can_move(nums, "Left")
    /\ can_move(nums, "Right")

(***************************************************************************)
(* C15.  spawn_tile on a board with no empty cell fails (it does not       *)
(* return normally), without having modified any cell of the board.        *)
(***************************************************************************)
C15_SpawnOnFullBoardFails ==
    (pc \in {"spawned", "panicked"} /\ open_tiles(before) = 0) =>
        /\ pc = "panicked"
        /\ nums = before

\* spawn_tile called on a full board that could still move
C15_Witness ==
    /\ pc = "panicked"
    /\ open_tiles(before) = 0
    /\ ~lost(before)
    /\ nums = before

FirstOfUpRightLeftDown(b, d) ==
    /\ can_move(b, d)
    /\ d = "Right" => ~can_move(b, "Up")
    /\ d = "Left" => ~can_move(b, "Up") /\ ~can_move(b, "Right")
    /\ d = "Down" =>
        ~can_move(b, "Up") /\ ~can_move(b, "Right") /\ ~can_move(b, "Left")

\* the board c is the board b with one tile more, in a cell that was empty
OneTileSpawned(b, c) ==
    \E t \in Cells :
        /\ b[t] = None /\ c[t] \in {TWO, FOUR}
        /\ \A x \in Cells \ {t} : c[x] = b[x]

(***************************************************************************)
(* C20.  Fixed-priority solver: every iteration of                         *)
(* solver_up_right_left_down on a board that is not lost performs exactly  *)
(* one do_move followed by exactly one spawn_tile, in the first of Up,     *)
(* Right, Left, Down for which can_move is true; Down is played only when  *)
(* Up, Right and Left cannot move.  On a lost board no iteration runs.     *)
(***************************************************************************)
C20_FixedPriorityStep ==
    [][mode = "urld" /\ pc = "loop" =>
        /\ lost(nums) => (nums' = nums /\ moves' = moves)
        /\ ~lost(nums) =>
            /\ moves' = moves + 1
            /\ FirstOfUpRightLeftDown(nums, dir')
            /\ before' = do_move(nums, dir').nums
            /\ OneTileSpawned(before', nums')
            /\ rng' = rng + SpawnSamples]_vars

\* Down was played: neither Up nor Right nor Left could move
C20_Witness ==
    /\ mode = "urld"
    /\ pc = "loop"
    /\ moves >= 1
    /\ dir = "Down"
    /\ merges = 0

InteractiveDriver == mode \in {"interactive", "cli", "web"}

(***************************************************************************)
(* C16.  Undo restores the snapshot taken before the last legal move: in   *)
(* both interactive drivers an undo that follows a legal move leaves the   *)
(* grid exactly as it was before that move, spawned tile, merges and       *)
(* slides reverted; undo is single-level: an undo with no move since the   *)
(* last undo or since the start of the game leaves the grid unchanged.     *)
(***************************************************************************)
C16_UndoRestoresSnapshot ==
    [][InteractiveDriver /\ key' = "u" =>
        nums' = IF pre_move # <<>> THEN pre_move[1] ELSE nums]_vars

\* an undo has reverted a move that changed the grid, in the cli
C16_Witness ==
    /\ mode = "cli"
    /\ key = "u"
    /\ moves >= 1
    /\ prev_state = <<>>
    /\ nums = before

(***************************************************************************)
(* C19.  In the interactive drivers a direction input changes the game     *)
(* only when can_move(dir) holds: then the board before the move is        *)
(* snapshotted, the move is applied and exactly one tile is spawned; when  *)
(* can_move(dir) is false the grid, the undo snapshot and the random       *)
(* generator are left unchanged.                                           *)
(***************************************************************************)
C19_DirectionInputFrame ==
    [][InteractiveDriver /\ key' \in Directions =>
        IF can_move(nums, key')
        THEN /\ prev_state' = <<[nums |-> nums, rng |-> rng]>>
             /\ dir' = key'
             /\ before' = do_move(nums, key').nums
             /\ before' # nums
             /\ OneTileSpawned(before', nums')
             /\ moves' = moves + 1
        ELSE /\ nums' = nums
             /\ prev_state' = prev_state
             /\ rng' = rng]_vars

\* the web driver has handled a direction that could move: the snapshot is
\* the grid before the move, the grid is the moved one with one more tile
C19_Witness ==
    /\ mode = "web"
    /\ key \in Directions
    /\ pre_move # <<>>
    /\ can_move(pre_move[1], key)
    /\ prev_state = <<[nums |-> pre_move[1], rng |-> 0]>>
    /\ rng > 0
    /\ before = do_move(pre_move[1], key).nums
    /\ OneTileSpawned(before, nums)

\* the item under the key "game" is absent, unreadable or no board
NoPersistedGame == load_from_storage(storage.game, "GameState") = <<>>

(***************************************************************************)
(* C17.  On load, when the persisted game state is absent or malformed,    *)
(* the web driver starts from a freshly generated board (two tiles, not    *)
(* lost) instead of propagating the error; no persisted input, game or     *)
(* history, makes start-up fail.                                           *)
(***************************************************************************)
C17_StartUpNeverFails ==
    mode = "web" /\ pc # "start" =>
        /\ pc = "loop"
        /\ NoPersistedGame =>
            /\ TileCount(nums) = 2
            /\ \A c \in Cells : nums[c] # None => nums[c] \in {TWO, FOUR}
            /\ ~lost(nums)
            /\ prev_state = <<[nums |-> nums, rng |-> rng]>>

\* row r has an empty cell beside a tile or two equal tiles that can meet
RowShifts(b, r) ==
    LineMovable(Line(b, r, "Left")) \/ LineMovable(Line(b, r, "Right"))

\* the order the snake solver is specified to choose on the board b
SnakeOrder(b) ==
    IF ~RowShifts(b, 0) /\ RowShifts(b, 1)
    THEN <<"Up", "Right", "Left", "Down">>
    ELSE <<"Up", "Left", "Right", "Down">>

\* d is the first direction of order that can move on b
FirstOfOrder(b, order, d) ==
    \E i \in 1..4 :
        /\ order[i] = d
        /\ can_move(b, d)
        /\ \A j \in 1..(i - 1) : ~can_move(b, order[j])

(***************************************************************************)
(* C21.  Snake solver: before each move solver_snake chooses the order Up, *)
(* Right, Left, Down exactly when row 0 can shift neither Left nor Right   *)
(* and row 1 can shift Left or Right, and the order Up, Left, Right, Down  *)
(* in every other case; it then plays the first direction of the chosen    *)
(* order for which can_move is true and spawns one tile.                   *)
(***************************************************************************)
C21_SnakeStep ==
    [][mode = "snake" /\ pc = "loop" /\ ~lost(nums) =>
        /\ moves' = moves + 1
        /\ FirstOfOrder(nums, SnakeOrder(nums), dir')
        /\ before' = do_move(nums, dir').nums
        /\ OneTileSpawned(before', nums')
        /\ rng' = rng + SpawnSamples]_vars

\* Right was played with a merge, which Left could have made too: the order
\* was Up, Right, Left, Down, row 0 being stuck
C21_Witness ==
    /\ mode = "snake"
    /\ pc = "loop"
    /\ moves >= 1
    /\ dir = "Right"
    /\ merges >= 1
    /\ ~RowShifts(before, 0)

\* (1) the tiles of the line l, in their order from the target edge
PackTiles(l) == SelectSeq(l, LAMBDA x : x # None)

\* (2) from the target edge, each pair of equal neighbours becomes one tile
\* of double value, which takes part in no other merge
RECURSIVE MergePairs(_)
MergePairs(t) ==
    IF Len(t) <= 1 THEN t
    ELSE IF t[1] = t[2]
         THEN <<t[1] + 1>> \o MergePairs(Tail(Tail(t)))
         ELSE <<t[1]>> \o MergePairs(Tail(t))

\* (3) packed again and padded with empty cells
PadLine(t) == [k \in 1..4 |-> IF k <= Len(t) THEN t[k] ELSE None]

\* the line the standard 2048 rules make of the line l
ReferenceLine(l) == PadLine(PackTiles(MergePairs(PackTiles(l))))

(***************************************************************************)
(* C22.  do_move agrees with the standard 2048 reference on every line:    *)
(* for every direction and every line content the result is the line with  *)
(* its tiles packed toward the target edge in their order, each pair of    *)
(* adjacent equal tiles, scanned from the target edge, replaced by one     *)
(* tile of double value, each tile in at most one merge, then packed and   *)
(* padded with empty cells; the four lines along the direction are         *)
(* transformed independently of each other.                                *)
(***************************************************************************)
C22_ReferenceMove ==
    pc = "moved" =>
        \A colrow \in 0..3 :
            Line(nums, colrow, dir) = ReferenceLine(Line(before, colrow, dir))

\* four equal tiles of a column moved Down became two, beside three lines
\* of the full board that did not move
C22_Witness ==
    /\ pc = "moved"
    /\ dir = "Down"
    /\ Line(before, 3, dir) = <<1, 1, 1, 1>>
    /\ Line(nums, 3, dir) = <<2, 2, None, None>>
    /\ Line(nums, 0, dir) = Line(Checker, 0, dir)

(***************************************************************************)
(* C23.  can_move is exact in the other direction too: for every board B   *)
(* and direction D, if can_move(D) is true then do_move(D) changes at      *)
(* least one cell of B.                                                    *)
(***************************************************************************)
C23_CanMoveImpliesChange ==
    (pc = "moved" /\ can_move(before, dir)) =>
        \E c \in Cells : nums[c] # before[c]

\* a move without a merge on a board where the opposite direction is stuck
C23_Witness ==
    /\ pc = "moved"
    /\ dir = "Left"
    /\ can_move(before, "Left")
    /\ ~can_move(before, "Right")
    /\ merges = 0
    /\ nums # before

(***************************************************************************)
(* C24.  do_move preserves the board-value sum: the sum of the values of   *)
(* the tiles is the same before and after do_move, with or without merges; *)
(* hence over every move+spawn cycle of a driver the score grows by        *)
(* exactly the value, 2 or 4, of the spawned tile.                         *)
(***************************************************************************)
C24_ScoreGrowsBySpawn ==
    [][moves' = moves + 1 =>
        /\ TileSum(before') = TileSum(nums)
        /\ pc' = "loop"
        /\ TileSum(nums') - TileSum(nums) \in {2, 4}]_vars

\* a solver has merged two pairs of tiles and a 4 was spawned: the score is
\* 4 more than the moved board's
C24_Witness ==
    /\ mode = "snake"
    /\ pc = "loop"
    /\ moves >= 1
    /\ merges >= 2
    /\ TileSum(nums) = TileSum(before) + 4

(***************************************************************************)
(* C25.  For every board that holds at least one tile, lost() implies that *)
(* no cell is empty: a board with an empty cell and at least one tile      *)
(* always has a movable direction.  So every lost board that new(), a move *)
(* or a spawn produced is completely full.                                 *)
(***************************************************************************)
C25_LostBoardIsFull ==
    /\ (TileCount(nums) >= 1 /\ lost(nums)) => open_tiles(nums) = 0
    /\ (TileCount(before) >= 1 /\ lost(before)) => open_tiles(before) = 0

\* a spawn filled the last empty cell of a board and the board is lost
C25_Witness ==
    /\ pc = "spawned"
    /\ open_tiles(before) = 1
    /\ ~lost(before)
    /\ lost(nums)
    /\ open_tiles(nums) = 0

\* two constructions entered in log that started alike made the same grid
LogIsAFunction ==
    \A e1, e2 \in log :
        (e1.nums = e2.nums /\ e1.rng = e2.rng /\ e1.call = e2.call)
            => e1.out = e2.out

C27_BinsInRange ==
    /\ \A i \in 1..Len(stats.history) : bin_index(stats.history, i) < BINS
    /\ pc # "panicked"

\* the scores the scoreboard holds
Slots(sb) == {k \in 1..5 : sb[k] # <<>>}

\* how many of the slots hold the score v
OnBoard(sb, v) == Cardinality({k \in Slots(sb) : sb[k][1].score = v})

\* how many games of the history scored v
Added(h, v) == Cardinality({i \in 1..Len(h) : h[i].score = v})

\* sb holds the five largest scores of h, or all of them when h has fewer
FiveLargest(sb, h) ==
    /\ Cardinality(Slots(sb)) = IF Len(h) < 5 THEN Len(h) ELSE 5
    /\ \A v \in {h[i].score : i \in 1..Len(h)} \cup {sb[k][1].score : k \in Slots(sb)} :
        /\ OnBoard(sb, v) <= Added(h, v)
        /\ OnBoard(sb, v) < Added(h, v) =>
                \A k \in Slots(sb) : sb[k][1].score >= v

\* C28: after any sequence of Scoreboard::add calls, those of Stats::new
\* included, the five slots hold the five largest scores added so far (all of
\* them when fewer than five were added), in non-increasing order, every
\* filled slot before every empty slot
C28_ScoreboardTopFive ==
    mode = "web" /\ pc \in {"page", "drawn", "panicked"} /\ storage = NoStorage =>
        /\ FiveLargest(stats.scoreboard, stats.history)
        /\ \A k \in 1..4 :
            /\ stats.scoreboard[k] = <<>> => stats.scoreboard[k + 1] = <<>>
            /\ k + 1 \in Slots(stats.scoreboard) =>
                    stats.scoreboard[k][1].score >= stats.scoreboard[k + 1][1].score

\* a sixth game has scored more than the first one, whose score has left the
\* scoreboard
C28_Witness ==
    /\ mode = "web" /\ pc = "page" /\ key = "n"
    /\ Len(stats.history) = 6
    /\ stats.history[6].score > stats.history[1].score
    /\ OnBoard(stats.scoreboard, stats.history[1].score) <
            Added(stats.history, stats.history[1].score)
    /\ stats.scoreboard[1][1].score > stats.scoreboard[5][1].score

====
